---- MODULE Spec2Model ----
(***************************************************************************)
(* Barnes-Hut quadtrees of rust-n-body.                                    *)
(*                                                                         *)
(*   quadtree.rs  BHTree / SubQuadrants / Quadrant   (SpecBH, SpecQuadrant) *)
(*   idktree.rs   Quadtree / TreeNode / Subquad, driven by main.rs update  *)
(*                                                              (SpecIdk)  *)
(*   bhtree.rs    Quadtree / Node / SubQuads / Quad              (SpecBt)  *)
(*   main.rs      mass_to_hue                                   (SpecHue)  *)
(*   idktree.rs   Quad and Quadtree::insert in f32, on positions a few     *)
(*                ulps apart                                    (SpecUlp)  *)
(*                                                                         *)
(* Arithmetic.  The program computes in f32.  Lengths and coordinates are  *)
(* modelled in fixed point, Scale units to 1.0, and every quotient that is *)
(* not a halving of a length is kept as an exact fraction: a vector is a   *)
(* record [x, y, d] standing for (x/d, y/d), a scalar a record [n, d]      *)
(* standing for n/d.  Rounding error of f32 is therefore not modelled,     *)
(* except under SpecUlp, which computes in f32 itself.                     *)
(*                                                                         *)
(* A force is the sum of the terms the traversal returns; the model keeps  *)
(* the sequence of terms instead of adding them up.  Fields named "ents"   *)
(* are history (ghost) fields: the entities whose mass a node's mass was   *)
(* computed from.  The code has no such field.                             *)
(***************************************************************************)
EXTENDS Integers, Sequences, FiniteSets, TLC

VARIABLES
    bh,         \* quadtree.rs: the root BHTree
    bhBodies,   \* quadtree.rs: the bodies the caller has inserted, entity = index
    bhRet,      \* quadtree.rs: what the last call on bh returned
    cq,         \* quadtree.rs: a Quadrant
    cp,         \* quadtree.rs: a point strictly inside cq
    cres,       \* quadtree.rs: what contains returned for cp on the children of cq
    bodies,     \* main.rs: the world's bodies (Body, Transform), entity = index
    pc,         \* main.rs: where update is
    cursor,     \* main.rs: how many bodies the running loop of update has visited
    settings,   \* main.rs: the SimulationSettings update reads (g, delta_t, theta)
    tree,       \* main.rs: update's `tree`, an idktree.rs Quadtree
    accel_map,  \* main.rs: update's `accel_map`
    calls,      \* main.rs: history, the calls the running update has made so far
    btBodies,   \* bhtree.rs: the caller's list of bodies, entity = index
    bt,         \* bhtree.rs: the root Quadtree
    btCursor,   \* bhtree.rs: how many bodies of the list were inserted
    btState,    \* bhtree.rs: "list", "insert", "built" or "panic"
    hue,        \* main.rs: a call of mass_to_hue, its arguments and what it returned
    ulpBodies,  \* idktree.rs: a caller's list of bodies, entity = index
    ulpTree,    \* idktree.rs: the Quadtree built over ulpBodies
    ulpCursor,  \* idktree.rs: how many bodies of the list were inserted
    ulpState    \* idktree.rs: "list", "insert" or "built"

bhVars == <<bh, bhBodies, bhRet>>
cVars == <<cq, cp, cres>>
idkVars == <<bodies, pc, cursor, settings, tree, accel_map, calls>>
btVars == <<btBodies, bt, btCursor, btState>>
hueVars == <<hue>>
ulpVars == <<ulpBodies, ulpTree, ulpCursor, ulpState>>
vars == <<bh, bhBodies, bhRet, cq, cp, cres, bodies, pc, cursor, settings, tree, accel_map,
          calls, btBodies, bt, btCursor, btState, hue, ulpBodies, ulpTree, ulpCursor,
          ulpState>>

-----------------------------------------------------------------------------
(* Bounds of the model *)

MaxBodies == 3
MaxMass == 2

\* fixed-point units to 1.0
Scale == 4 * 16

\* Body.mass: the lightest and the heaviest body of the world
Masses == {1, MaxMass}

-----------------------------------------------------------------------------
(* Exact arithmetic *)

Abs(n) == IF n < 0 THEN -n ELSE n

RECURSIVE GcdNat(_, _)
GcdNat(a, b) == IF b = 0 THEN a ELSE GcdNat(b, a % b)

Gcd(a, b) == GcdNat(Abs(a), Abs(b))

\* the vector (x/d, y/d) in lowest terms, d > 0
Vec(x, y, d) ==
    LET g == Gcd(Gcd(x, y), d)
        s == IF d < 0 THEN -1 ELSE 1
    IN  [x |-> (s * x) \div g, y |-> (s * y) \div g, d |-> (s * d) \div g]

\* the scalar n/d in lowest terms, d > 0
Frac(n, d) ==
    LET g == Gcd(n, d)
        s == IF d < 0 THEN -1 ELSE 1
    IN  [n |-> (s * n) \div g, d |-> (s * d) \div g]

VecSub(a, b) == Vec(a.x * b.d - b.x * a.d, a.y * b.d - b.y * a.d, a.d * b.d)

\* |a|^2
LengthSquared(a) == Frac(a.x * a.x + a.y * a.y, a.d * a.d)

\* |a - b|^2
DistanceSquared(a, b) == LengthSquared(VecSub(a, b))

FracLess(a, b) == a.n * b.d < b.n * a.d

FracMul(a, b) == Frac(a.n * b.n, a.d * b.d)

FracMax(a, b) == IF FracLess(a, b) THEN b ELSE a

-----------------------------------------------------------------------------
(* quadtree.rs: Quadrant *)

MIN_QUADRANT_LENGTH == Scale \div 2

THETA_THRESHOLD == Frac(1, 2)

Quadrant_new(center, length) == [center |-> center, len |-> length]

\* closed on all four sides
Quadrant_contains(self, pos) ==
    LET half_len == self.len \div 2
    IN  /\ pos.x >= (self.center[1] - half_len) * pos.d
        /\ pos.x <= (self.center[1] + half_len) * pos.d
        /\ pos.y >= (self.center[2] - half_len) * pos.d
        /\ pos.y <= (self.center[2] + half_len) * pos.d

Corner == {"NW", "NE", "SW", "SE"}

Quadrant_subquad(self, corner) ==
    LET half == self.len \div 2
        quarter == half \div 2
    IN  CASE corner = "NW" ->
               Quadrant_new(<<self.center[1] - quarter, self.center[2] + quarter>>, half)
          [] corner = "NE" ->
               Quadrant_new(<<self.center[1] + quarter, self.center[2] + quarter>>, half)
          [] corner = "SW" ->
               Quadrant_new(<<self.center[1] - quarter, self.center[2] - quarter>>, half)
          [] corner = "SE" ->
               Quadrant_new(<<self.center[1] + quarter, self.center[2] - quarter>>, half)

-----------------------------------------------------------------------------
(* quadtree.rs: Node *)

NoNode == [some |-> FALSE]

External(entity) == [kind |-> "External", entity |-> entity]

Internal(subquads) == [kind |-> "Internal", subquads |-> subquads]

\* ents: the entity this node was created for (history)
Node_new(pos, mass, item) ==
    [some |-> TRUE, pos |-> pos, mass |-> mass, item |-> item,
     ents |-> IF item.kind = "External" THEN {item.entity} ELSE {}]

\* a Node::add that forgets the weights: the midpoint of the two positions
Node_add_Unweighted(self, other_pos, other_mass) ==
    [self EXCEPT
        !.pos = Vec(self.pos.x * other_pos.d + other_pos.x * self.pos.d,
                    self.pos.y * other_pos.d + other_pos.y * self.pos.d,
                    2 * self.pos.d * other_pos.d),
        !.mass = self.mass + other_mass]

Node_add(self, other_pos, other_mass) ==
    LET total_mass == self.mass + other_mass
    IN  [self EXCEPT
            !.pos = Vec(self.pos.x * self.mass * other_pos.d
                            + other_pos.x * other_mass * self.pos.d,
                        self.pos.y * self.mass * other_pos.d
                            + other_pos.y * other_mass * self.pos.d,
                        self.pos.d * other_pos.d * total_mass),
            !.mass = total_mass]

-----------------------------------------------------------------------------
(* quadtree.rs: BHTree and SubQuadrants *)

BHTree_new(quad) == [quad |-> quad, node |-> NoNode]

SubQuadrants_new(parent_quad) ==
    [nw |-> BHTree_new(Quadrant_subquad(parent_quad, "NW")),
     ne |-> BHTree_new(Quadrant_subquad(parent_quad, "NE")),
     sw |-> BHTree_new(Quadrant_subquad(parent_quad, "SW")),
     se |-> BHTree_new(Quadrant_subquad(parent_quad, "SE"))]

RECURSIVE BHTree_insert(_, _, _, _)
RECURSIVE SubQuadrants_insert(_, _, _, _)

\* the first child, in the order nw, ne, sw, se, whose quadrant contains pos;
\* a pos in none of them is dropped
SubQuadrants_insert(self, entity, body, pos) ==
    IF /\ ~Quadrant_contains(self.nw.quad, pos)
       /\ ~Quadrant_contains(self.ne.quad, pos)
       /\ ~Quadrant_contains(self.sw.quad, pos)
       /\ ~Quadrant_contains(self.se.quad, pos)
    THEN self
    ELSE IF Quadrant_contains(self.nw.quad, pos)
         THEN [self EXCEPT !.nw = BHTree_insert(self.nw, entity, body, pos)]
    ELSE IF Quadrant_contains(self.ne.quad, pos)
         THEN [self EXCEPT !.ne = BHTree_insert(self.ne, entity, body, pos)]
    ELSE IF Quadrant_contains(self.sw.quad, pos)
         THEN [self EXCEPT !.sw = BHTree_insert(self.sw, entity, body, pos)]
    ELSE IF Quadrant_contains(self.se.quad, pos)
         THEN [self EXCEPT !.se = BHTree_insert(self.se, entity, body, pos)]
    ELSE self

\* current_node.add(position, body.mass), and the history of whose mass it was
AddBody(current_node, entity, body, position) ==
    [Node_add(current_node, position, body.mass) EXCEPT !.ents = @ \cup {entity}]

BHTree_insert(self, entity, body, position) ==
    IF self.node.some
    THEN LET current_node == self.node IN
         IF current_node.item.kind = "Internal"
         THEN LET subquads ==
                      SubQuadrants_insert(current_node.item.subquads, entity, body, position)
              IN  [self EXCEPT !.node =
                      AddBody([current_node EXCEPT !.item = Internal(subquads)],
                              entity, body, position)]
         ELSE LET existing_entity == current_node.item.entity IN
              IF self.quad.len > MIN_QUADRANT_LENGTH
              THEN LET s0 == SubQuadrants_new(self.quad)
                       \* the occupant goes down with the NEW body's `body`
                       s1 == SubQuadrants_insert(s0, existing_entity, body, current_node.pos)
                       s2 == SubQuadrants_insert(s1, entity, body, position)
                   IN  [self EXCEPT !.node =
                           AddBody([current_node EXCEPT !.item = Internal(s2)],
                                   entity, body, position)]
              ELSE [self EXCEPT !.node = AddBody(current_node, entity, body, position)]
    ELSE [self EXCEPT !.node = Node_new(position, body.mass, External(entity))]

\* one term of a force: normalize_or_zero(dir) * force_mag
approximate_force(node, pos, mass) ==
    LET dir == VecSub(node.pos, pos)
        dist_sq == FracMax(LengthSquared(dir), Frac(Scale * Scale, 1))
        force_mag == Frac(mass * node.mass * Scale * Scale * dist_sq.d, dist_sq.n)
    IN  [dir |-> dir, force_mag |-> force_mag, node_mass |-> node.mass, ents |-> node.ents]

\* quad.len / distance < THETA_THRESHOLD; x / 0.0 is +inf or NaN, never below
BHApproximates(quad, node, position) ==
    LET d2 == DistanceSquared(node.pos, position)
    IN  quad.len * quad.len * THETA_THRESHOLD.d * THETA_THRESHOLD.d * d2.d
            < THETA_THRESHOLD.n * THETA_THRESHOLD.n * d2.n

RECURSIVE BHTree_compute_force(_, _, _, _)

SubQuadrants_compute_force(self, entity, body, pos) ==
    BHTree_compute_force(self.nw, entity, body, pos)
        \o BHTree_compute_force(self.ne, entity, body, pos)
        \o BHTree_compute_force(self.sw, entity, body, pos)
        \o BHTree_compute_force(self.se, entity, body, pos)

BHTree_compute_force(self, entity, body, position) ==
    IF self.node.some
    THEN LET node == self.node IN
         IF node.item.kind = "Internal"
         THEN IF BHApproximates(self.quad, node, position)
              THEN <<approximate_force(node, position, body.mass)>>
              ELSE SubQuadrants_compute_force(node.item.subquads, entity, body, position)
         ELSE IF node.item.entity # entity
              THEN <<approximate_force(node, position, body.mass)>>
              ELSE <<>>
    ELSE <<>>

-----------------------------------------------------------------------------
(* quadtree.rs: a caller that inserts bodies and asks for forces *)

\* the root quadrant: 2.0 wide about the origin, two subdivisions above
\* MIN_QUADRANT_LENGTH
BHRootQuad == Quadrant_new(<<0, 0>>, 4 * MIN_QUADRANT_LENGTH)

\* the point (x8/8, y8/8)
Pt(x8, y8) == Vec((x8 * Scale) \div 8, (y8 * Scale) \div 8, 1)

\* where the caller puts bodies: the south-west corner of the root, its centre
\* (on both centre lines), a point of the south-east child, and two points of
\* one leaf of the north-east child
BHPositions == {Pt(-8, -8), Pt(0, 0), Pt(6, -2), Pt(6, 6), Pt(6, 7)}

NoRet == [kind |-> "none"]

BHIdle ==
    /\ bh = BHTree_new(BHRootQuad)
    /\ bhBodies = <<>>
    /\ bhRet = NoRet

CIdle ==
    /\ cq = BHRootQuad
    /\ cp = Pt(0, 0)
    /\ cres = NoRet

NoTree == [some |-> FALSE]

IdkIdle ==
    /\ bodies = <<>>
    /\ pc = "idle"
    /\ cursor = 0
    /\ settings = [g |-> Frac(1, 1), delta_t |-> Frac(1, 1000), theta |-> Frac(1, 2)]
    /\ tree = NoTree
    /\ accel_map = <<>>
    /\ calls = <<>>

BtIdle ==
    /\ btBodies = <<>>
    /\ bt = NoTree
    /\ btCursor = 0
    /\ btState = "idle"

HueIdle == hue = NoRet

UlpIdle ==
    /\ ulpBodies = <<>>
    /\ ulpTree = NoTree
    /\ ulpCursor = 0
    /\ ulpState = "idle"

BHInit == BHIdle /\ CIdle /\ IdkIdle /\ BtIdle /\ HueIdle /\ UlpIdle

BHInsert ==
    /\ Len(bhBodies) < MaxBodies
    /\ \E m \in Masses, p \in BHPositions :
          /\ bh' = BHTree_insert(bh, Len(bhBodies) + 1, [mass |-> m], p)
          /\ bhBodies' = Append(bhBodies, [mass |-> m, pos |-> p])
    /\ bhRet' = NoRet
    /\ UNCHANGED <<cVars, idkVars, btVars, hueVars, ulpVars>>

BHComputeForce ==
    /\ \E e \in 1..Len(bhBodies) :
          bhRet' = [kind |-> "force", entity |-> e,
                    force |-> BHTree_compute_force(bh, e, [mass |-> bhBodies[e].mass],
                                                   bhBodies[e].pos)]
    /\ UNCHANGED <<bh, bhBodies, cVars, idkVars, btVars, hueVars, ulpVars>>

BHNext == BHInsert \/ BHComputeForce

SpecBH == BHInit /\ [][BHNext]_vars

-----------------------------------------------------------------------------
(* quadtree.rs: what the claims speak of *)

RECURSIVE SumMass(_, _)
SumMass(bs, S) ==
    IF S = {} THEN 0
    ELSE LET e == CHOOSE e \in S : TRUE
         IN  bs[e].mass + SumMass(bs, S \ {e})

\* sum of mass * position over the bs S, as a vector over denominator 1
RECURSIVE SumMoment(_, _)
SumMoment(bs, S) ==
    IF S = {} THEN [x |-> 0, y |-> 0]
    ELSE LET e == CHOOSE e \in S : TRUE
             r == SumMoment(bs, S \ {e})
         IN  [x |-> r.x + bs[e].mass * bs[e].pos.x,
              y |-> r.y + bs[e].mass * bs[e].pos.y]

\* the mass-weighted mean position of the bs S (positions are grid points)
WeightedMean(bs, S) ==
    Vec(SumMoment(bs, S).x, SumMoment(bs, S).y, SumMass(bs, S))

\* the node's aggregate is that of exactly the bs S
AggregateOf(node, bs, S) ==
    /\ node.mass = SumMass(bs, S)
    /\ node.pos = WeightedMean(bs, S)

ChildMass(t) == IF t.node.some THEN t.node.mass ELSE 0

RECURSIVE BHAggregatesOK(_, _)
BHAggregatesOK(t, bs) ==
    \/ ~t.node.some
    \/ /\ AggregateOf(t.node, bs, t.node.ents)
       /\ \/ t.node.item.kind = "External"
          \/ LET q == t.node.item.subquads
             IN  /\ t.node.mass = ChildMass(q.nw) + ChildMass(q.ne)
                                     + ChildMass(q.sw) + ChildMass(q.se)
                 /\ BHAggregatesOK(q.nw, bs)
                 /\ BHAggregatesOK(q.ne, bs)
                 /\ BHAggregatesOK(q.sw, bs)
                 /\ BHAggregatesOK(q.se, bs)

\* the tree the caller gets by inserting bs[order[1]], bs[order[2]], ...
RECURSIVE BHBuild(_, _, _)
BHBuild(bs, order, k) ==
    IF k = 0 THEN BHTree_new(BHRootQuad)
    ELSE BHTree_insert(BHBuild(bs, order, k - 1), order[k],
                       [mass |-> bs[order[k]].mass], bs[order[k]].pos)

\* the orders that differ from 1, 2, .., n by exchanging two neighbours, and
\* the reverse order.  Exchanges of neighbours generate every permutation, and
\* every list of bodies is the list of some reachable state.
Orders(n) ==
    {[j \in 1..n |-> IF j = k THEN k + 1 ELSE IF j = k + 1 THEN k ELSE j] : k \in 1..(n - 1)}
        \cup {[j \in 1..n |-> n + 1 - j]}

\* C1 (as claimed): compute_force(e, ..) returns no term computed from a node
\* mass that includes e's own mass.
C1_SelfExclusion ==
    bhRet.kind = "force" =>
        \A i \in 1..Len(bhRet.force) : bhRet.entity \notin bhRet.force[i].ents

\* C2 (as claimed): every node's mass and pos are the sum and the weighted mean
\* of exactly the bodies inserted into its subtree, and an Internal node's mass
\* is the sum of its children's.
C2_AggregateInvariant == BHAggregatesOK(bh, bhBodies)

\* C3: the root's mass is the sum of the inserted masses and its pos their
\* mass-weighted mean position, and inserting the same bodies in another
\* order gives the same root mass and pos (checked in the state each insert
\* leaves).
C3_RootAggregate ==
    LET n == Len(bhBodies) IN
    (n > 0 /\ bhRet = NoRet) =>
        /\ bh.node.some
        /\ AggregateOf(bh.node, bhBodies, 1..n)
        /\ \A order \in Orders(n) :
              LET t == BHBuild(bhBodies, order, n)
              IN  t.node.mass = bh.node.mass /\ t.node.pos = bh.node.pos

\* three bodies, not all of one mass nor at one place, under an Internal root
C3_Witness ==
    /\ Len(bhBodies) = 3
    /\ bhBodies[1].mass # bhBodies[2].mass
    /\ bhBodies[1].pos # bhBodies[3].pos
    /\ bh.node.some
    /\ bh.node.item.kind = "Internal"

\* what b1 feels from b2 alone: the kernel of approximate_force on b2's own
\* mass and position
TwoBodyTerm(b1, b2) == approximate_force([pos |-> b2.pos, mass |-> b2.mass, ents |-> {}],
                                         b1.pos, b1.mass)

BHForceOn(e) ==
    BHTree_compute_force(bh, e, [mass |-> bhBodies[e].mass], bhBodies[e].pos)

\* C5 (as claimed): with exactly two bodies at distinct positions, each feels
\* one term, along the line to the other, of the two-body kernel's magnitude
\* for m1 and m2, the two terms opposite and equal.
C5_TwoBodySymmetry ==
    (Len(bhBodies) = 2 /\ bhBodies[1].pos # bhBodies[2].pos) =>
        LET f1 == BHForceOn(1)
            f2 == BHForceOn(2)
        IN  /\ Len(f1) = 1 /\ Len(f2) = 1
            /\ f1[1].dir = VecSub(bhBodies[2].pos, bhBodies[1].pos)
            /\ f2[1].dir = VecSub(bhBodies[1].pos, bhBodies[2].pos)
            /\ f1[1].force_mag = TwoBodyTerm(bhBodies[1], bhBodies[2]).force_mag
            /\ f2[1].force_mag = f1[1].force_mag

-----------------------------------------------------------------------------
(* Vec3, exact: [x, y, z, d] stands for (x/d, y/d, z/d) *)

V3(x, y, z, d) ==
    LET g == Gcd(Gcd(Gcd(x, y), z), d)
        s == IF d < 0 THEN -1 ELSE 1
    IN  [x |-> (s * x) \div g, y |-> (s * y) \div g, z |-> (s * z) \div g,
         d |-> (s * d) \div g]

V3Sub(a, b) ==
    V3(a.x * b.d - b.x * a.d, a.y * b.d - b.y * a.d, a.z * b.d - b.z * a.d, a.d * b.d)

V3LengthSquared(a) == Frac(a.x * a.x + a.y * a.y + a.z * a.z, a.d * a.d)

V3DistanceSquared(a, b) == V3LengthSquared(V3Sub(a, b))

SetMin(S) == CHOOSE m \in S : \A n \in S : m <= n

SetMax(S) == CHOOSE m \in S : \A n \in S : m >= n

-----------------------------------------------------------------------------
(* idktree.rs: Quad *)

Quad_new(x, y, size) == [center |-> <<x, y>>, size |-> size]

\* f32::MAX and f32::MIN, where the minima and maxima of new_containing start:
\* a value above every coordinate of the model.  With no position at all
\* the code's size is MIN - MAX, which overflows to -inf; here it is a finite
\* negative number.
F32_MAX == 1024 * Scale

F32_MIN == -F32_MAX

\* positions: a sequence of points <<x, y>>
Quad_new_containing(positions) ==
    LET xs == {positions[k][1] : k \in DOMAIN positions}
        ys == {positions[k][2] : k \in DOMAIN positions}
        min_x == SetMin({F32_MAX} \cup xs)
        min_y == SetMin({F32_MAX} \cup ys)
        max_x == SetMax({F32_MIN} \cup xs)
        max_y == SetMax({F32_MIN} \cup ys)
        w == max_x - min_x
        h == max_y - min_y
    IN  [center |-> <<(min_x + max_x) \div 2, (min_y + max_y) \div 2>>,
         size |-> IF w > h THEN w ELSE h]

\* |c - p| - eps <= hl on both axes, hl = size / 2, eps = hl * 0.0001
Quad_contains(self, pos) ==
    /\ 20000 * Abs(self.center[1] - pos[1]) <= 10001 * self.size
    /\ 20000 * Abs(self.center[2] - pos[2]) <= 10001 * self.size

-----------------------------------------------------------------------------
(* idktree.rs: Subquad and TreeNode *)

NoEntity == [some |-> FALSE]

NoTreeNode == [some |-> FALSE]

\* routed: the entities insert_or_divide was called with on this Subquad;
\* ents: the entities whose mass was added into .mass.  Both are history.
Subquad_new(x, y, size) ==
    [quad |-> Quad_new(x, y, size),
     entity |-> NoEntity,
     node |-> NoTreeNode,
     mass |-> 0,
     pos_mass |-> V3(0, 0, 0, 1),
     routed |-> {},
     ents |-> {}]

TreeNode_new(quad) ==
    LET h == quad.size \div 2
        q == h \div 2
    IN  [some |-> TRUE,
         quad |-> quad,
         nw |-> Subquad_new(quad.center[1] - q, quad.center[2] + q, h),
         ne |-> Subquad_new(quad.center[1] + q, quad.center[2] + q, h),
         sw |-> Subquad_new(quad.center[1] - q, quad.center[2] - q, h),
         se |-> Subquad_new(quad.center[1] + q, quad.center[2] - q, h)]

\* the update of mass and pos_mass by one body (m1, m2, m, x, y of the code);
\* pos_mass.z is never written
Subquad_accumulate(self, entity, transform, body) ==
    LET m1 == self.mass
        m2 == body.mass
        m == m1 + m2
        p == self.pos_mass
        t == transform.translation
    IN  [self EXCEPT
            !.mass = m,
            !.pos_mass = V3(p.x * m1 * t.d + t.x * m2 * p.d,
                            p.y * m1 * t.d + t.y * m2 * p.d,
                            p.z * t.d * m,
                            p.d * t.d * m),
            !.ents = @ \cup {entity}]

IDK_MIN_SIZE_Quarter == Scale \div 4

IDK_MIN_SIZE == Scale \div 2

RECURSIVE TreeNode_insert_into_subquad(_, _, _, _)
RECURSIVE Subquad_insert_or_divide(_, _, _, _)

TreeNode_insert_into_subquad(self, entity, transform, body) ==
    LET pos == <<transform.translation.x, transform.translation.y>> IN
    IF ~Quad_contains(self.quad, pos)
    THEN self
    ELSE IF pos[2] < self.quad.center[2]
         THEN IF pos[1] < self.quad.center[1]
              THEN [self EXCEPT !.sw = Subquad_insert_or_divide(self.sw, entity, transform, body)]
              ELSE [self EXCEPT !.se = Subquad_insert_or_divide(self.se, entity, transform, body)]
         ELSE IF pos[1] < self.quad.center[1]
              THEN [self EXCEPT !.nw = Subquad_insert_or_divide(self.nw, entity, transform, body)]
              ELSE [self EXCEPT !.ne = Subquad_insert_or_divide(self.ne, entity, transform, body)]

\* the `match` of insert_or_divide, on a Subquad whose routed already has entity
InsertOrDivide(self, entity, transform, body) ==
    IF self.node.some
    THEN [Subquad_accumulate(self, entity, transform, body) EXCEPT
             !.node = TreeNode_insert_into_subquad(self.node, entity, transform, body)]
    ELSE IF ~self.entity.some
         \* the two assignments to mass and pos_mass here are commented out
         THEN [self EXCEPT !.entity = [some |-> TRUE, entity |-> entity,
                                        transform |-> transform, body |-> body]]
         ELSE LET tuple == self.entity IN
              IF self.quad.size < IDK_MIN_SIZE
              THEN Subquad_accumulate(self, entity, transform, body)
              ELSE LET n0 == TreeNode_new(self.quad)
                       n1 == TreeNode_insert_into_subquad(n0, entity, transform, body)
                       n2 == TreeNode_insert_into_subquad(n1, tuple.entity,
                                                          tuple.transform, tuple.body)
                   IN  [Subquad_accumulate(self, entity, transform, body) EXCEPT
                           !.node = n2]

Subquad_insert_or_divide(self, entity, transform, body) ==
    InsertOrDivide([self EXCEPT !.routed = @ \cup {entity}], entity, transform, body)

\* one term of an acceleration: g * (m2 / mag) * r.normalize() * dt, which is
\* k * r with k = g * (m2 / mag) * (1 / mag) * dt.  r and mag_sq are in
\* fixed-point units, k is computed from the length in units of 1.0.  With
\* mag = 0 the code divides by zero and k is x/0.
calc_accel(m2, t1, t2, dt, g) ==
    LET r == V3Sub(t2, t1)
        mag_sq == V3LengthSquared(r)
        inv_mag_sq == Frac(mag_sq.d * Scale * Scale, mag_sq.n)
    IN  [m2 |-> m2, r |-> r, mag_sq |-> mag_sq, dt |-> dt, g |-> g,
         k |-> FracMul(FracMul(g, Frac(m2, 1)), FracMul(inv_mag_sq, dt))]

\* s / d < theta, d the distance from the query to the pos_mass of the nw
\* Subquad of the node below; x / 0.0 is +inf or NaN, never below theta
IdkApproximates(subquad, transform, theta) ==
    LET s == subquad.quad.size
        d2 == V3DistanceSquared(transform.translation, subquad.node.nw.pos_mass)
    IN  s * s * theta.d * theta.d * d2.d < theta.n * theta.n * d2.n

Term(kind, ents, accel) == [kind |-> kind, ents |-> ents, accel |-> accel]

RECURSIVE get_accel(_, _, _, _, _, _, _)

TreeNode_get_total_accel(self, entity, transform, body, g, dt, theta) ==
    get_accel(self.nw, entity, transform, body, g, dt, theta)
        \o get_accel(self.ne, entity, transform, body, g, dt, theta)
        \o get_accel(self.sw, entity, transform, body, g, dt, theta)
        \o get_accel(self.se, entity, transform, body, g, dt, theta)

get_accel(subquad, entity, transform, body, g, dt, theta) ==
    IF ~subquad.node.some
    THEN IF subquad.entity.some
         THEN LET tuple == subquad.entity IN
              IF tuple.entity = entity
              THEN <<>>
              ELSE <<Term("leaf", {tuple.entity},
                          calc_accel(tuple.body.mass, transform.translation,
                                     tuple.transform.translation, dt, g))>>
         ELSE <<>>
    ELSE IF IdkApproximates(subquad, transform, theta)
         THEN <<Term("approx", subquad.ents,
                     calc_accel(subquad.mass, transform.translation,
                                subquad.pos_mass, dt, g))>>
         ELSE TreeNode_get_total_accel(subquad.node, entity, transform, body, g, dt, theta)

-----------------------------------------------------------------------------
(* idktree.rs: Quadtree *)

Quadtree_new(quad) == [some |-> TRUE, root |-> TreeNode_new(quad)]

Quadtree_insert(self, entity, transform, body) ==
    [self EXCEPT !.root = TreeNode_insert_into_subquad(self.root, entity, transform, body)]

Quadtree_get_total_accel(self, entity, transform, body, g, dt, theta) ==
    TreeNode_get_total_accel(self.root, entity, transform, body, g, dt, theta)

-----------------------------------------------------------------------------
(* main.rs: add_bodies, reset_handler and update *)

\* SimulationSettings::default().z
SettingsZ == 10

\* where add_bodies puts bodies, in the plane z = settings.z
IdkPositions == {<<0, 0>>, <<Scale \div 4, Scale \div 4>>, <<Scale, Scale>>, <<2 * Scale, 0>>}

\* settings.theta: 0 (no approximation), and the ends of the slider 0.1..=1.0
Thetas == {Frac(0, 1), Frac(1, 10), Frac(1, 1)}

\* A body of the world.  velocity is Vec3::ZERO plus the accelerations added
\* to it, kept as the sequence of their terms; moved_by is the sequence of
\* displacements velocity * delta_t added to translation.x and .y, so the
\* position is translation exactly while moved_by is empty.
spawn_body(body, transform, velocity) ==
    [body |-> body, transform |-> transform, velocity |-> velocity]

IdkInit ==
    /\ bodies = <<>>
    /\ pc = "startup"
    /\ cursor = 0
    /\ settings = [g |-> Frac(1, 1), delta_t |-> Frac(1, 1000), theta |-> Frac(1, 2)]
    /\ tree = NoTree
    /\ accel_map = <<>>
    /\ calls = <<>>
    /\ BHIdle /\ CIdle /\ BtIdle /\ HueIdle /\ UlpIdle

\* add_bodies: one turn of its loop (donut = false)
SpawnBody ==
    /\ pc = "startup"
    /\ Len(bodies) < MaxBodies
    /\ \E m \in Masses, p \in IdkPositions :
          bodies' = Append(bodies,
                           spawn_body([mass |-> m],
                                      [translation |-> V3(p[1], p[2], SettingsZ * Scale, 1),
                                       moved_by |-> <<>>],
                                      <<>>))
    /\ UNCHANGED <<pc, cursor, settings, tree, accel_map, calls, bhVars, cVars, btVars, hueVars, ulpVars>>

\* reset_handler on a ResetEvent, between two frames: every body is
\* despawned and add_bodies runs again
ResetHandler ==
    /\ pc = "frame"
    /\ bodies' = <<>>
    /\ pc' = "startup"
    /\ UNCHANGED <<cursor, settings, tree, accel_map, calls, bhVars, cVars, btVars, hueVars, ulpVars>>

\* every position of the world is still on the fixed-point grid
OnGrid == \A e \in DOMAIN bodies : bodies[e].transform.moved_by = <<>>

\* update, up to the first loop: a fresh map and a fresh tree over the
\* bounding square of the positions of the world, of any number of bodies.
\* settings.theta is whatever the slider (or a caller of get_total_accel)
\* has set it to.  A world that has left the grid is followed no further.
UpdateStart ==
    /\ pc \in {"startup", "frame"}
    /\ OnGrid
    /\ \E th \in Thetas : settings' = [settings EXCEPT !.theta = th]
    /\ LET positions == [k \in DOMAIN bodies |->
                            <<bodies[k].transform.translation.x,
                              bodies[k].transform.translation.y>>]
       IN  tree' = Quadtree_new(Quad_new_containing(positions))
    /\ accel_map' = <<>>
    /\ calls' = <<>>
    /\ cursor' = 0
    /\ pc' = IF bodies = <<>> THEN "end" ELSE "insert"
    /\ UNCHANGED <<bodies, bhVars, cVars, btVars, hueVars, ulpVars>>

\* update: one turn of the insert loop
UpdateInsert ==
    /\ pc = "insert"
    /\ LET e == cursor + 1
       IN  /\ tree' = Quadtree_insert(tree, e, bodies[e].transform, bodies[e].body)
           /\ calls' = Append(calls, <<"insert", e>>)
    /\ IF cursor + 1 = Len(bodies)
       THEN pc' = "query" /\ cursor' = 0
       ELSE pc' = pc /\ cursor' = cursor + 1
    /\ UNCHANGED <<bodies, settings, accel_map, bhVars, cVars, btVars, hueVars, ulpVars>>

\* velocity.0 += accel; translation.x and .y += velocity.0 * delta_t.  Adding
\* a zero vector leaves the value as it is.
Integrate(b, accel, delta_t) ==
    LET velocity == b.velocity \o accel
    IN  [b EXCEPT !.velocity = velocity,
                  !.transform.moved_by =
                      IF velocity = <<>> THEN @ ELSE Append(@, <<velocity, delta_t>>)]

\* a query loop that also steps the body it has just queried
UpdateQuery_Fused ==
    /\ pc = "query"
    /\ LET e == cursor + 1
           accel == Quadtree_get_total_accel(tree, e, bodies[e].transform, bodies[e].body,
                                             settings.g, settings.delta_t, settings.theta)
       IN  /\ accel_map' = [x \in DOMAIN accel_map \cup {e} |->
                               IF x = e THEN accel ELSE accel_map[x]]
           /\ bodies' = [bodies EXCEPT ![e] = Integrate(@, accel, settings.delta_t)]
           /\ calls' = Append(calls, <<"get_total_accel", e>>)
    /\ IF cursor + 1 = Len(bodies)
       THEN pc' = "integrate" /\ cursor' = 0
       ELSE pc' = pc /\ cursor' = cursor + 1
    /\ UNCHANGED <<settings, tree, bhVars, cVars, btVars, hueVars, ulpVars>>

\* a query loop whose query writes to the tree: it inserts the body again
UpdateQuery_Inserting ==
    /\ pc = "query"
    /\ LET e == cursor + 1
           accel == Quadtree_get_total_accel(tree, e, bodies[e].transform, bodies[e].body,
                                             settings.g, settings.delta_t, settings.theta)
       IN  /\ accel_map' = [x \in DOMAIN accel_map \cup {e} |->
                               IF x = e THEN accel ELSE accel_map[x]]
           /\ tree' = Quadtree_insert(tree, e, bodies[e].transform, bodies[e].body)
           /\ calls' = Append(calls, <<"get_total_accel", e>>)
    /\ IF cursor + 1 = Len(bodies)
       THEN pc' = "integrate" /\ cursor' = 0
       ELSE pc' = pc /\ cursor' = cursor + 1
    /\ UNCHANGED <<bodies, settings, bhVars, cVars, btVars, hueVars, ulpVars>>

\* a query loop that stores an acceleration only if it is not zero
UpdateQuery_NonZeroOnly ==
    /\ pc = "query"
    /\ LET e == cursor + 1
           accel == Quadtree_get_total_accel(tree, e, bodies[e].transform, bodies[e].body,
                                             settings.g, settings.delta_t, settings.theta)
       IN  /\ accel_map' = IF accel = <<>>
                           THEN accel_map
                           ELSE [x \in DOMAIN accel_map \cup {e} |->
                                    IF x = e THEN accel ELSE accel_map[x]]
           /\ calls' = Append(calls, <<"get_total_accel", e>>)
    /\ IF cursor + 1 = Len(bodies)
       THEN pc' = "integrate" /\ cursor' = 0
       ELSE pc' = pc /\ cursor' = cursor + 1
    /\ UNCHANGED <<bodies, settings, tree, bhVars, cVars, btVars, hueVars, ulpVars>>

\* update: one turn of the query loop
UpdateQuery ==
    /\ pc = "query"
    /\ LET e == cursor + 1
           accel == Quadtree_get_total_accel(tree, e, bodies[e].transform, bodies[e].body,
                                             settings.g, settings.delta_t, settings.theta)
       IN  /\ accel_map' = [x \in DOMAIN accel_map \cup {e} |->
                               IF x = e THEN accel ELSE accel_map[x]]
           /\ calls' = Append(calls, <<"get_total_accel", e>>)
    /\ IF cursor + 1 = Len(bodies)
       THEN pc' = "integrate" /\ cursor' = 0
       ELSE pc' = pc /\ cursor' = cursor + 1
    /\ UNCHANGED <<bodies, settings, tree, bhVars, cVars, btVars, hueVars, ulpVars>>

\* update: one turn of the last loop; unwrap panics on a missing key
UpdateIntegrate ==
    /\ pc = "integrate"
    /\ LET e == cursor + 1
       IN  IF e \in DOMAIN accel_map
           THEN /\ bodies' = [bodies EXCEPT ![e] = Integrate(@, accel_map[e], settings.delta_t)]
                /\ calls' = Append(calls, <<"integrate", e>>)
                /\ IF cursor + 1 = Len(bodies)
                   THEN pc' = "end" /\ cursor' = 0
                   ELSE pc' = pc /\ cursor' = cursor + 1
           ELSE /\ pc' = "panic"
                /\ UNCHANGED <<bodies, cursor, calls, hueVars, ulpVars>>
    /\ UNCHANGED <<settings, tree, accel_map, bhVars, cVars, btVars, hueVars, ulpVars>>

\* update returns: its locals `tree` and `accel_map` are dropped
UpdateEnd ==
    /\ pc = "end"
    /\ tree' = NoTree
    /\ accel_map' = <<>>
    /\ calls' = <<>>
    /\ pc' = "frame"
    /\ UNCHANGED <<bodies, cursor, settings, bhVars, cVars, btVars, hueVars, ulpVars>>

IdkNext ==
    \/ SpawnBody
    \/ ResetHandler
    \/ UpdateStart
    \/ UpdateInsert
    \/ UpdateQuery
    \/ UpdateIntegrate
    \/ UpdateEnd

SpecIdk == IdkInit /\ [][IdkNext]_vars

-----------------------------------------------------------------------------
(* idktree.rs: what the claims speak of *)

\* the world's bodies as [mass, pos] records
IdkFlat ==
    [e \in DOMAIN bodies |->
        [mass |-> bodies[e].body.mass,
         pos |-> Vec(bodies[e].transform.translation.x,
                     bodies[e].transform.translation.y, 1)]]

\* every halving of a size made while building the tree was exact
RECURSIVE HalvingsExact(_)
HalvingsExact(node) ==
    /\ node.quad.size % 4 = 0
    /\ \A sub \in {node.nw, node.ne, node.sw, node.se} :
          sub.node.some => HalvingsExact(sub.node)

FixedPointExact == tree.some => HalvingsExact(tree.root)

\* the Subquads of the tree under a TreeNode
RECURSIVE SubquadsOf(_)
SubquadsOf(node) ==
    UNION {{sub} \cup (IF sub.node.some THEN SubquadsOf(sub.node) ELSE {}) :
              sub \in {node.nw, node.ne, node.sw, node.se}}

IdkSubquads == IF tree.some THEN SubquadsOf(tree.root) ELSE {}

\* a Subquad's aggregate is that of exactly the bodies routed into it
SubquadAggregateOK(sub) ==
    /\ sub.mass = SumMass(IdkFlat, sub.routed)
    /\ sub.routed # {} =>
          LET mean == WeightedMean(IdkFlat, sub.routed)
          IN  sub.pos_mass = V3(mean.x, mean.y, 0, mean.d)

\* C4 (as claimed): a Subquad holding its first body has that body's mass and
\* position as mass and pos_mass, and every Subquad's mass and pos_mass are
\* the sum and the weighted mean position of the bodies routed into it.
C4_SubquadAggregate ==
    \A sub \in IdkSubquads :
        /\ (sub.entity.some /\ sub.routed = {sub.entity.entity}) =>
              /\ sub.mass = sub.entity.body.mass
              /\ sub.pos_mass = V3(sub.entity.transform.translation.x,
                                   sub.entity.transform.translation.y, 0, 1)
        /\ SubquadAggregateOK(sub)

Count(seq, v) == Cardinality({k \in DOMAIN seq : seq[k] = v})

\* the term of the exact pairwise sum that body j contributes to body e
PairTerm(e, j) ==
    calc_accel(bodies[j].body.mass, bodies[e].transform.translation,
               bodies[j].transform.translation, settings.delta_t, settings.g)

\* C6 (as claimed): with theta = 0 the acceleration of a body is the exact
\* pairwise sum: one calc_accel term for every other body, on that body's
\* own mass and position, and no other term.
C6_ExactAtThetaZero ==
    settings.theta = Frac(0, 1) =>
        \A e \in DOMAIN accel_map :
            LET accels == [k \in DOMAIN accel_map[e] |-> accel_map[e][k].accel]
                others == DOMAIN bodies \ {e}
            IN  /\ Len(accels) = Cardinality(others)
                /\ \A j \in others :
                      Count(accels, PairTerm(e, j))
                          = Cardinality({j2 \in others : PairTerm(e, j2) = PairTerm(e, j)})

\* s / d < theta with d the distance in the plane from the Subquad's own
\* pos_mass to the query position
ClaimedApproximates(subquad, transform, th) ==
    LET s == subquad.quad.size
        p == subquad.pos_mass
        q == V3(transform.translation.x, transform.translation.y, 0, transform.translation.d)
        d2 == V3DistanceSquared(q, V3(p.x, p.y, 0, p.d))
    IN  s * s * th.d * th.d * d2.d < th.n * th.n * d2.n

\* on every internal Subquad get_accel visits from sub down, the code's test
\* is the claimed one
RECURSIVE OpensAsClaimed(_, _, _)
OpensAsClaimed(sub, transform, th) ==
    sub.node.some =>
        LET approx == IdkApproximates(sub, transform, th)
        IN  /\ approx <=> ClaimedApproximates(sub, transform, th)
            /\ ~approx =>
                  \A c \in {sub.node.nw, sub.node.ne, sub.node.sw, sub.node.se} :
                      OpensAsClaimed(c, transform, th)

\* C7 (as claimed): an internal Subquad visited by get_accel is replaced by
\* one source iff s / d < theta, s its side and d the distance in the plane
\* from its own pos_mass to the query position.
C7_OpeningCriterion ==
    \A e \in DOMAIN accel_map :
        \A sub \in {tree.root.nw, tree.root.ne, tree.root.sw, tree.root.se} :
            OpensAsClaimed(sub, bodies[e].transform, settings.theta)

\* C8 (as claimed): for theta in [0.1, 1.0] no term of the acceleration of e
\* has a source mass that includes e's own mass.
C8_SelfExclusion ==
    (~FracLess(settings.theta, Frac(1, 10)) /\ ~FracLess(Frac(1, 1), settings.theta)) =>
        \A e \in DOMAIN accel_map :
            \A k \in DOMAIN accel_map[e] : e \notin accel_map[e][k].ents

\* the number of halvings that bring a side length below 0.5
RECURSIVE Halvings(_)
Halvings(size) == IF 2 * size < Scale THEN 0 ELSE 1 + Halvings(size \div 2)

\* the number of TreeNode levels from node down
RECURSIVE Depth(_)
Depth(node) ==
    1 + SetMax({0} \cup {Depth(sub.node) :
                            sub \in {c \in {node.nw, node.ne, node.sw, node.se} : c.node.some}})

\* the Subquads without a TreeNode below
IdkLeaves == {sub \in IdkSubquads : ~sub.node.some}

\* C11: every insert of update has returned a tree in which no Subquad of
\* side below 0.5 was subdivided and whose depth is at most the number of
\* halvings that bring the root's side below 0.5 (and 1 for the root itself),
\* bodies at one position included.
C11_BoundedDepth ==
    tree.some =>
        /\ \A sub \in IdkSubquads : sub.node.some => 2 * sub.quad.size >= Scale
        /\ Depth(tree.root) <= SetMax({1, Halvings(tree.root.quad.size)})

\* two bodies at one position were inserted under a root of side >= 0.5: the
\* second was folded into a leaf of side below 0.5, at the greatest depth
C11_Witness ==
    /\ pc = "query"
    /\ 2 * tree.root.quad.size >= Scale
    /\ Depth(tree.root) = Halvings(tree.root.quad.size)
    /\ \E sub \in IdkLeaves :
          /\ sub.entity.some
          /\ 2 * sub.quad.size < Scale
          /\ \E e \in sub.ents :
                /\ e # sub.entity.entity
                /\ bodies[e].transform.translation = sub.entity.transform.translation

\* C12 (as claimed): no term of an acceleration was computed by calc_accel
\* at distance 0, that is from a source at the position of the query.
C12_NoZeroDistance ==
    \A e \in DOMAIN accel_map :
        \A k \in DOMAIN accel_map[e] : accel_map[e][k].accel.mag_sq.n # 0

\* the calls of one whole update on a world of n bodies
StepCalls(n) ==
    [i \in 1..(3 * n) |->
        IF i <= n THEN <<"insert", i>>
        ELSE IF i <= 2 * n THEN <<"get_total_accel", i - n>>
        ELSE <<"integrate", i - 2 * n>>]

\* C13: the calls of the running update are the beginning of: one insert per
\* body, then one get_total_accel per body, then one integration per body;
\* the tree of a step that has made no call yet holds no body; no body has a
\* velocity or position other than the one it was spawned with while the
\* insert and query loops run; between two updates there is no tree.
C13_BuildThenQuery ==
    /\ Len(calls) <= 3 * Len(bodies)
    /\ calls = SubSeq(StepCalls(Len(bodies)), 1, Len(calls))
    /\ (pc = "insert" /\ calls = <<>>) =>
          \A sub \in IdkSubquads : ~sub.entity.some /\ ~sub.node.some /\ sub.mass = 0
    /\ pc \in {"insert", "query"} =>
          \A e \in DOMAIN bodies :
              bodies[e].velocity = <<>> /\ bodies[e].transform.moved_by = <<>>
    /\ pc \in {"startup", "frame"} => tree = NoTree /\ accel_map = <<>>

\* an update of a world of two or more bodies has run to its end, a body was
\* given a velocity, and the tree is gone
C13_Witness ==
    /\ pc = "frame"
    /\ Len(bodies) >= 2
    /\ \E e \in DOMAIN bodies : bodies[e].velocity # <<>>
    /\ tree = NoTree

\* C14 (as claimed): the tree of a world of one body or more has a root Quad
\* of side > 0, and so has every Subquad under it.
C14_PositiveSize ==
    (tree.some /\ bodies # <<>>) =>
        /\ tree.root.quad.size > 0
        /\ \A sub \in IdkSubquads : sub.quad.size > 0

\* a second Quadtree, built from the first k bodies of the list bs, in order
RECURSIVE IdkBuild(_, _)
IdkBuild(bs, k) ==
    IF k = 0
    THEN Quadtree_new(Quad_new_containing(
             [j \in DOMAIN bs |-> <<bs[j].transform.translation.x,
                                    bs[j].transform.translation.y>>]))
    ELSE Quadtree_insert(IdkBuild(bs, k - 1), k, bs[k].transform, bs[k].body)

IdkTerms ==
    UNION {{accel_map[e][k].accel : k \in DOMAIN accel_map[e]} : e \in DOMAIN accel_map}

\* For a term a = k * r at distance dist, in units of 1.0: the square of
\* |a| / (g * dt * m2 / dist^2), the factor by which the term differs from
\* the inverse-square law
KernelSq(t) ==
    LET dist_sq == Frac(t.mag_sq.n, t.mag_sq.d * Scale * Scale)
        q == FracMul(t.k, Frac(t.g.d * t.dt.d, t.g.n * t.dt.n * t.m2))
        qd == FracMul(q, dist_sq)
    IN  FracMul(FracMul(qd, qd), dist_sq)

\* C16 (as claimed): every term k * r of an acceleration points from the
\* query to the source (k > 0) and its magnitude is proportional to
\* m2 / dist^2: |a| / (m2 / dist^2) is the same for all terms of a step.
C16_InverseSquare ==
    LET terms == {t \in IdkTerms : t.mag_sq.n # 0}
    IN  /\ \A t \in terms : t.k.n > 0 /\ t.k.d > 0
        /\ \A t1, t2 \in terms : KernelSq(t1) = KernelSq(t2)

\* C19: update never panics on accel_map.get(..).unwrap(): when the last
\* loop runs, accel_map has a value under the index of every body, so under
\* that of every body the loop has yet to visit; a world without bodies runs
\* no turn of any loop.
C19_UnwrapNeverFails ==
    /\ pc # "panic"
    /\ pc = "integrate" => DOMAIN accel_map = DOMAIN bodies
    /\ bodies = <<>> => pc \in {"startup", "end", "frame"}

\* the last loop has visited a body of a world of two or more
C19_Witness ==
    /\ pc = "integrate"
    /\ cursor >= 1
    /\ <<"integrate", 1>> = calls[Len(calls)]

-----------------------------------------------------------------------------
(* quadtree.rs: Quadrant::contains on the four children of a Quadrant *)

\* the quadrants of a tree over BHRootQuad: the root, its children, theirs
CQuadrants ==
    LET l1 == {Quadrant_subquad(BHRootQuad, c) : c \in Corner}
        l2 == {Quadrant_subquad(q, c) : q \in l1, c \in Corner}
    IN  {BHRootQuad} \cup l1 \cup l2

\* distance between neighbouring test points, 1/16
CStep == Scale \div 16

\* the points of the CStep grid strictly inside q
StrictlyInside(q) ==
    LET h == q.len \div 2
        k == h \div CStep
    IN  {Vec(q.center[1] + dx * CStep, q.center[2] + dy * CStep, 1) :
            dx \in (1 - k)..(k - 1), dy \in (1 - k)..(k - 1)}

CInit ==
    /\ cq \in CQuadrants
    /\ cq.len > 0
    /\ cp \in StrictlyInside(cq)
    /\ cres = NoRet
    /\ BHIdle /\ IdkIdle /\ BtIdle /\ HueIdle /\ UlpIdle

CContains ==
    /\ cres = NoRet
    /\ cres' = [kind |-> "contains",
                corners |-> {c \in Corner : Quadrant_contains(Quadrant_subquad(cq, c), cp)}]
    /\ UNCHANGED <<cq, cp, bhVars, idkVars, btVars, hueVars, ulpVars>>

CNext == CContains

SpecQuadrant == CInit /\ [][CNext]_vars

\* C9 (as claimed): a point strictly inside a Quadrant of positive len is
\* contained in exactly one of its four subquads.
C9_ExactlyOneChild ==
    cres.kind = "contains" => Cardinality(cres.corners) = 1

-----------------------------------------------------------------------------
(* bhtree.rs: Quad *)

BtQuad_new_containing(positions) ==
    LET xs == {positions[k][1] : k \in DOMAIN positions}
        ys == {positions[k][2] : k \in DOMAIN positions}
        min_x == SetMin(xs)
        min_y == SetMin(ys)
        max_x == SetMax(xs)
        max_y == SetMax(ys)
        w == max_x - min_x
        h == max_y - min_y
    IN  [center |-> <<(min_x + max_x) \div 2, (min_y + max_y) \div 2>>,
         size |-> IF w > h THEN w ELSE h]

BtQuad_subquad(self, c) ==
    LET h == self.size \div 2
        q == h \div 2
    IN  CASE c = "NW" -> [center |-> <<self.center[1] - q, self.center[2] + q>>, size |-> h]
          [] c = "NE" -> [center |-> <<self.center[1] + q, self.center[2] + q>>, size |-> h]
          [] c = "SW" -> [center |-> <<self.center[1] - q, self.center[2] - q>>, size |-> h]
          [] c = "SE" -> [center |-> <<self.center[1] + q, self.center[2] - q>>, size |-> h]

\* closed below, open above, hl = size / 2
BtQuad_contains(self, x, y) ==
    /\ 2 * x >= 2 * self.center[1] - self.size
    /\ 2 * x < 2 * self.center[1] + self.size
    /\ 2 * y >= 2 * self.center[2] - self.size
    /\ 2 * y < 2 * self.center[2] + self.size

-----------------------------------------------------------------------------
(* bhtree.rs: Quadtree, Node, SubQuads.  A call that reaches panic! returns *)
(* Panicked instead of a tree.                                              *)

Panicked == [some |-> FALSE, panic |-> TRUE]

BtLeaf(option) == [kind |-> "Leaf", option |-> option]

BtInternal(subs) == [kind |-> "Internal", subs |-> subs]

BtQuadtree_new(quad) ==
    [some |-> TRUE,
     node |-> [quad |-> quad, node_type |-> BtLeaf(NoEntity), mass |-> 0, pos |-> <<0, 0>>]]

SubQuads_new(q) ==
    [nw |-> BtQuadtree_new(BtQuad_subquad(q, "NW")),
     ne |-> BtQuadtree_new(BtQuad_subquad(q, "NE")),
     sw |-> BtQuadtree_new(BtQuad_subquad(q, "SW")),
     se |-> BtQuadtree_new(BtQuad_subquad(q, "SE"))]

RECURSIVE BtQuadtree_insert(_, _, _, _)

\* the SubQuads after the insert into the first child, in the order nw, ne,
\* sw, se, whose quad contains the position; Panicked when none does
Node_subdivide_and_insert(subs, entity, body, transform) ==
    LET x == transform.translation.x
        y == transform.translation.y
        into(child) == BtQuadtree_insert(child, entity, body, transform)
    IN  IF BtQuad_contains(subs.nw.node.quad, x, y)
        THEN IF into(subs.nw).some THEN [subs EXCEPT !.nw = into(subs.nw)] ELSE Panicked
        ELSE IF BtQuad_contains(subs.ne.node.quad, x, y)
        THEN IF into(subs.ne).some THEN [subs EXCEPT !.ne = into(subs.ne)] ELSE Panicked
        ELSE IF BtQuad_contains(subs.sw.node.quad, x, y)
        THEN IF into(subs.sw).some THEN [subs EXCEPT !.sw = into(subs.sw)] ELSE Panicked
        ELSE IF BtQuad_contains(subs.se.node.quad, x, y)
        THEN IF into(subs.se).some THEN [subs EXCEPT !.se = into(subs.se)] ELSE Panicked
        ELSE Panicked

BtQuadtree_insert(self, entity, body, transform) ==
    IF self.node.node_type.kind = "Leaf"
    THEN IF self.node.node_type.option.some
         THEN \* occupied: only the new body goes into the fresh SubQuads
              LET subs == Node_subdivide_and_insert(SubQuads_new(self.node.quad),
                                                    entity, body, transform)
              IN  IF subs = Panicked
                  THEN Panicked
                  ELSE [self EXCEPT !.node.node_type = BtInternal(subs),
                                    !.node.mass = @ + body.mass]
         ELSE [self EXCEPT
                  !.node.node_type = BtLeaf([some |-> TRUE, entity |-> entity,
                                             body |-> body, transform |-> transform]),
                  !.node.mass = body.mass]
    ELSE \* Internal: the arm is empty
         self

-----------------------------------------------------------------------------
(* bhtree.rs: a caller that builds the tree over a list of bodies *)

BtInit ==
    /\ btBodies = <<>>
    /\ bt = NoTree
    /\ btCursor = 0
    /\ btState = "list"
    /\ BHIdle /\ CIdle /\ IdkIdle /\ HueIdle /\ UlpIdle

\* one more body of positive mass at a finite position
BtAddBody ==
    /\ btState = "list"
    /\ Len(btBodies) < MaxBodies
    /\ \E m \in Masses, p \in IdkPositions :
          btBodies' = Append(btBodies,
                             [body |-> [mass |-> m],
                              transform |-> [translation |-> V3(p[1], p[2], SettingsZ * Scale, 1)]])
    /\ UNCHANGED <<bt, btCursor, btState, bhVars, cVars, idkVars, hueVars, ulpVars>>

\* Quadtree::new(Quad::new_containing(positions)) over a non-empty list
BtBuild ==
    /\ btState = "list"
    /\ Len(btBodies) >= 1
    /\ LET positions == [k \in DOMAIN btBodies |->
                            <<btBodies[k].transform.translation.x,
                              btBodies[k].transform.translation.y>>]
       IN  bt' = BtQuadtree_new(BtQuad_new_containing(positions))
    /\ btCursor' = 0
    /\ btState' = "insert"
    /\ UNCHANGED <<btBodies, bhVars, cVars, idkVars, hueVars, ulpVars>>

\* Quadtree::insert of the next body; a panic aborts the program
BtInsert ==
    /\ btState = "insert"
    /\ LET e == btCursor + 1
           r == BtQuadtree_insert(bt, e, btBodies[e].body, btBodies[e].transform)
       IN  IF r = Panicked
           THEN /\ btState' = "panic"
                /\ UNCHANGED <<bt, btCursor, hueVars, ulpVars>>
           ELSE /\ bt' = r
                /\ btCursor' = btCursor + 1
                /\ btState' = IF btCursor + 1 = Len(btBodies) THEN "built" ELSE "insert"
    /\ UNCHANGED <<btBodies, bhVars, cVars, idkVars, hueVars, ulpVars>>

BtNext == BtAddBody \/ BtBuild \/ BtInsert

SpecBt == BtInit /\ [][BtNext]_vars

\* C10 (as claimed): over a non-empty list of bodies of positive mass, the
\* root from new_containing and one insert per body never reach the panic of
\* subdivide_and_insert.
C10_NoPanic == btState # "panic"

-----------------------------------------------------------------------------
(* main.rs: mass_to_hue *)

MaxHueMass == 4

FracSub(a, b) == Frac(a.n * b.d - b.n * a.d, a.d * b.d)

FracDiv(a, b) == Frac(a.n * b.d, a.d * b.n)

\* returns 0.0 for equal bounds
mass_to_hue_Zero(m, min_mass, max_mass) ==
    LET new_max == Frac(1, 1)
    IN  IF min_mass = max_mass
        THEN Frac(0, 1)
        ELSE FracDiv(FracMul(FracSub(m, min_mass), new_max), FracSub(max_mass, min_mass))

mass_to_hue(m, min_mass, max_mass) ==
    LET new_max == Frac(1, 1)
    IN  IF min_mass = max_mass
        THEN Frac(1, 1)
        ELSE FracDiv(FracMul(FracSub(m, min_mass), new_max), FracSub(max_mass, min_mass))

\* the masses a caller passes: 0, 1/2, 1, 3/2, ..., MaxHueMass
HueMasses == {Frac(h, 2) : h \in 0..(2 * MaxHueMass)}

HueInit ==
    /\ \E m \in HueMasses, min_mass \in HueMasses, max_mass \in HueMasses :
          hue = [kind |-> "call", m |-> m, min_mass |-> min_mass, max_mass |-> max_mass]
    /\ BHIdle /\ CIdle /\ IdkIdle /\ BtIdle /\ UlpIdle

HueReturn ==
    /\ hue.kind = "call"
    /\ hue' = [kind |-> "returned", m |-> hue.m, min_mass |-> hue.min_mass,
               max_mass |-> hue.max_mass,
               ret |-> mass_to_hue(hue.m, hue.min_mass, hue.max_mass)]
    /\ UNCHANGED <<bhVars, cVars, idkVars, btVars, ulpVars>>

HueNext == HueReturn

SpecHue == HueInit /\ [][HueNext]_vars

\* C17: mass_to_hue returns 1 for equal bounds, whatever m; otherwise it
\* returns the h with h * (max - min) = m - min, which is 0 at min, 1 at max,
\* 1/2 half way, and within [0, 1] for min <= m <= max.
C17_HueLinear ==
    hue.kind = "returned" =>
        LET m == hue.m
            lo == hue.min_mass
            hi == hue.max_mass
            h == hue.ret
        IN  IF lo = hi
            THEN h = Frac(1, 1)
            ELSE /\ FracMul(h, FracSub(hi, lo)) = FracSub(m, lo)
                 /\ m = lo => h = Frac(0, 1)
                 /\ m = hi => h = Frac(1, 1)
                 /\ FracSub(m, lo) = FracSub(hi, m) => h = Frac(1, 2)
                 /\ (~FracLess(m, lo) /\ ~FracLess(hi, m)) =>
                       ~FracLess(h, Frac(0, 1)) /\ ~FracLess(Frac(1, 1), h)

\* a call with a mass half way between two different bounds has returned
C17_Witness ==
    /\ hue.kind = "returned"
    /\ FracLess(hue.min_mass, hue.m)
    /\ FracLess(hue.m, hue.max_mass)
    /\ hue.ret = Frac(1, 2)

-----------------------------------------------------------------------------
(* idktree.rs in f32, on positions a few ulps apart                        *)
(*                                                                         *)
(* In [256, 512) the f32 numbers are the multiples of ulp = 2^-15.  Every  *)
(* f32 of this section is an integer count of quarter ulps (2^-17), which  *)
(* writes exactly every value the section computes: coordinates at 256.0   *)
(* plus a few ulps, their sums and products with small masses, and lengths *)
(* of a few ulps with their halves and quarters.  An operation of the code *)
(* is the exact result rounded to the nearest f32, ties to the even        *)
(* mantissa.                                                               *)

\* the spacing of the f32 numbers around v: 2^-17 below 128.0, doubling
\* with every binade from there
RECURSIVE F32Grid(_)
F32Grid(v) == IF v < 2^24 THEN 1 ELSE 2 * F32Grid(v \div 2)

\* the integer nearest to n / d, ties to the even one (n >= 0, d > 0)
RoundTiesEven(n, d) ==
    LET q == n \div d
        r == n % d
    IN  IF 2 * r < d THEN q
        ELSE IF 2 * r > d THEN q + 1
        ELSE IF q % 2 = 0 THEN q ELSE q + 1

\* the f32 nearest to n / d
F32Round(n, d) ==
    LET grid == F32Grid(n \div d)
    IN  RoundTiesEven(n, d * grid) * grid

\* (min + max) * 0.5 and (max_x - min_x).max(max_y - min_y), on a list that
\* is not empty; the difference of two f32 this close is exact
F32Quad_new_containing(positions) ==
    LET xs == {positions[k][1] : k \in DOMAIN positions}
        ys == {positions[k][2] : k \in DOMAIN positions}
        min_x == SetMin(xs)
        min_y == SetMin(ys)
        max_x == SetMax(xs)
        max_y == SetMax(ys)
        w == max_x - min_x
        h == max_y - min_y
    IN  [center |-> <<F32Round(F32Round(min_x + max_x, 1), 2),
                      F32Round(F32Round(min_y + max_y, 1), 2)>>,
         size |-> IF w > h THEN w ELSE h]

\* missed: the entities insert_into_subquad has reported on stderr as
\* "Position not found in any quads!" at this TreeNode (history)
F32TreeNode_new(quad) ==
    LET h == F32Round(quad.size, 2)
        q == F32Round(h, 2)
    IN  [some |-> TRUE,
         quad |-> quad,
         missed |-> {},
         nw |-> Subquad_new(F32Round(quad.center[1] - q, 1), F32Round(quad.center[2] + q, 1), h),
         ne |-> Subquad_new(F32Round(quad.center[1] + q, 1), F32Round(quad.center[2] + q, 1), h),
         sw |-> Subquad_new(F32Round(quad.center[1] - q, 1), F32Round(quad.center[2] - q, 1), h),
         se |-> Subquad_new(F32Round(quad.center[1] + q, 1), F32Round(quad.center[2] - q, 1), h)]

\* x = (x1 * m1 + x2 * m2) / m, every operation rounded
F32WeightedMean(x1, m1, x2, m2) ==
    F32Round(F32Round(F32Round(x1 * m1, 1) + F32Round(x2 * m2, 1), 1), m1 + m2)

F32Subquad_accumulate(self, entity, transform, body) ==
    LET m1 == self.mass
        m2 == body.mass
        p == self.pos_mass
        t == transform.translation
    IN  [self EXCEPT
            !.mass = m1 + m2,
            !.pos_mass = [p EXCEPT !.x = F32WeightedMean(p.x, m1, t.x, m2),
                                   !.y = F32WeightedMean(p.y, m1, t.y, m2)],
            !.ents = @ \cup {entity}]

\* 0.5 in quarter ulps
F32_MIN_SIZE == 2^16

RECURSIVE F32TreeNode_insert_into_subquad(_, _, _, _)
RECURSIVE F32Subquad_insert_or_divide(_, _, _, _)

\* Quad::contains compares |c - p| - hl * 0.0001 with hl = size / 2.  c - p
\* and hl are exact, and with |c - p| and size whole numbers of quarter ulps
\* far below 10000 the rounding of the product and of the difference cannot
\* change the outcome, which is that of Quad_contains.
F32TreeNode_insert_into_subquad(self, entity, transform, body) ==
    LET pos == <<transform.translation.x, transform.translation.y>> IN
    IF ~Quad_contains(self.quad, pos)
    THEN [self EXCEPT !.missed = @ \cup {entity}]
    ELSE IF pos[2] < self.quad.center[2]
         THEN IF pos[1] < self.quad.center[1]
              THEN [self EXCEPT !.sw = F32Subquad_insert_or_divide(self.sw, entity, transform, body)]
              ELSE [self EXCEPT !.se = F32Subquad_insert_or_divide(self.se, entity, transform, body)]
         ELSE IF pos[1] < self.quad.center[1]
              THEN [self EXCEPT !.nw = F32Subquad_insert_or_divide(self.nw, entity, transform, body)]
              ELSE [self EXCEPT !.ne = F32Subquad_insert_or_divide(self.ne, entity, transform, body)]

F32InsertOrDivide(self, entity, transform, body) ==
    IF self.node.some
    THEN [F32Subquad_accumulate(self, entity, transform, body) EXCEPT
             !.node = F32TreeNode_insert_into_subquad(self.node, entity, transform, body)]
    ELSE IF ~self.entity.some
         THEN [self EXCEPT !.entity = [some |-> TRUE, entity |-> entity,
                                        transform |-> transform, body |-> body]]
         ELSE LET tuple == self.entity IN
              IF self.quad.size < F32_MIN_SIZE
              THEN F32Subquad_accumulate(self, entity, transform, body)
              ELSE LET n0 == F32TreeNode_new(self.quad)
                       n1 == F32TreeNode_insert_into_subquad(n0, entity, transform, body)
                       n2 == F32TreeNode_insert_into_subquad(n1, tuple.entity,
                                                             tuple.transform, tuple.body)
                   IN  [F32Subquad_accumulate(self, entity, transform, body) EXCEPT
                           !.node = n2]

F32Subquad_insert_or_divide(self, entity, transform, body) ==
    F32InsertOrDivide([self EXCEPT !.routed = @ \cup {entity}], entity, transform, body)

F32Quadtree_new(quad) == [some |-> TRUE, root |-> F32TreeNode_new(quad)]

F32Quadtree_insert(self, entity, transform, body) ==
    [self EXCEPT !.root = F32TreeNode_insert_into_subquad(self.root, entity, transform, body)]

\* 256.0, and the positions of the bodies: 256.0 plus 0 to 3 ulps in x, plus
\* 0 or 1 ulp in y
UlpOrigin == 2^25

UlpPositions == {<<UlpOrigin + 4 * a, UlpOrigin + 4 * b>> : a \in 0..3, b \in 0..1}

UlpInit ==
    /\ ulpBodies = <<>>
    /\ ulpTree = NoTree
    /\ ulpCursor = 0
    /\ ulpState = "list"
    /\ BHIdle /\ CIdle /\ IdkIdle /\ BtIdle /\ HueIdle

\* the caller adds a body to its list
UlpAddBody ==
    /\ ulpState = "list"
    /\ Len(ulpBodies) < MaxBodies
    /\ \E m \in Masses, p \in UlpPositions :
          ulpBodies' = Append(ulpBodies,
                              [body |-> [mass |-> m],
                               transform |-> [translation |-> V3(p[1], p[2], 0, 1)]])
    /\ UNCHANGED <<ulpTree, ulpCursor, ulpState, bhVars, cVars, idkVars, btVars, hueVars>>

\* Quadtree::new(Quad::new_containing(positions)), as update does it
UlpBuild ==
    /\ ulpState = "list"
    /\ ulpBodies # <<>>
    /\ LET positions == [k \in DOMAIN ulpBodies |->
                            <<ulpBodies[k].transform.translation.x,
                              ulpBodies[k].transform.translation.y>>]
       IN  ulpTree' = F32Quadtree_new(F32Quad_new_containing(positions))
    /\ ulpState' = "insert"
    /\ UNCHANGED <<ulpBodies, ulpCursor, bhVars, cVars, idkVars, btVars, hueVars>>

\* one Quadtree::insert, for the next body of the list
UlpInsert ==
    /\ ulpState = "insert"
    /\ LET e == ulpCursor + 1
       IN  ulpTree' = F32Quadtree_insert(ulpTree, e, ulpBodies[e].transform, ulpBodies[e].body)
    /\ ulpCursor' = ulpCursor + 1
    /\ ulpState' = IF ulpCursor + 1 = Len(ulpBodies) THEN "built" ELSE "insert"
    /\ UNCHANGED <<ulpBodies, bhVars, cVars, idkVars, btVars, hueVars>>

UlpNext == UlpAddBody \/ UlpBuild \/ UlpInsert

SpecUlp == UlpInit /\ [][UlpNext]_vars

\* the TreeNodes from node down
RECURSIVE TreeNodesOf(_)
TreeNodesOf(node) ==
    {node} \cup UNION {TreeNodesOf(sub.node) :
                          sub \in {c \in {node.nw, node.ne, node.sw, node.se} : c.node.some}}

UlpLeaves == {sub \in SubquadsOf(ulpTree.root) : ~sub.node.some}

\* C18 (as claimed): once every body of the list was inserted, no insert has
\* taken the "Position not found in any quads!" return, and every entity
\* either is the occupant of exactly one leaf Subquad and folded into none,
\* or occupies none and was folded into a leaf Subquad of side below 0.5.
C18_BodyConservation ==
    ulpState = "built" =>
        /\ \A node \in TreeNodesOf(ulpTree.root) : node.missed = {}
        /\ \A e \in DOMAIN ulpBodies :
              LET occupied == {sub \in UlpLeaves : sub.entity.some /\ sub.entity.entity = e}
                  folded == {sub \in UlpLeaves : e \in sub.ents}
              IN  /\ Cardinality(occupied) <= 1
                  /\ \/ Cardinality(occupied) = 1 /\ folded = {}
                     \/ /\ occupied = {}
                        /\ folded # {}
                        /\ \A sub \in folded : sub.quad.size < F32_MIN_SIZE

====
